---- MODULE Spec2Model ----
(***************************************************************************)
(* iCash: a relational purchase ledger (PostgreSQL) with three programs.   *)
(*   db-init/init.py                 initialize_database (schema + seed)   *)
(*   cash-register-service/main.py   submit_purchase (ledger writer)       *)
(*   dashboard-service/main.py       get_stats (aggregation)               *)
(* The committed relations are the variables products, purchases and       *)
(* purchase_items.  Rows a transaction has inserted and not yet committed  *)
(* live in that process's tx_* fields: other connections do not see them   *)
(* (PostgreSQL's default READ COMMITTED).  SERIAL keys come from the       *)
(* sequences in seq, which a rollback does not rewind.                     *)
(***************************************************************************)
EXTENDS Naturals, Sequences, FiniteSets, TLC

VARIABLES
    schema,          \* TRUE once the three tables exist (CREATE TABLE committed)
    products,        \* committed rows of products
    purchases,       \* committed rows of purchases
    purchase_items,  \* committed rows of purchase_items
    seq,             \* last value of products_product_id_seq / purchases_purchase_id_seq
    uuid_count,      \* number of uuid.uuid4() values drawn so far
    clock,           \* datetime.now(), a logical clock
    csv,             \* data/products_list.csv and data/purchases.csv
    writer,          \* one submit_purchase request per cash-register worker
    reader,          \* one get_stats request per dashboard worker
    importer,        \* the db-init processes
    calls            \* history of submit_purchase: requests received, transactions
                     \* committed, customer ids generated; and how many
                     \* requests the run admits

vars == <<schema, products, purchases, purchase_items, seq, uuid_count, clock,
          csv, writer, reader, importer, calls>>

db == <<products, purchases, purchase_items>>

----------------------------------------------------------------------------
(* Bounds of the model *)

NumProducts == 2
NumRanked == 4
MaxItems == 2
MaxCalls == 2
NumCustomers == 1
MaxPerCustomer == 3
MaxHistory == 2
MaxRuns == 3
MaxLedger == 2

Writers == DOMAIN writer
Readers == DOMAIN reader
Importers == DOMAIN importer

----------------------------------------------------------------------------
(* Values *)

\* Strings are modelled as tuples so that generated and supplied identifiers
\* are comparable; the empty string is the empty tuple.
EmptyStr == <<>>
Customer(k) == <<"cust", k>>
Uuid(n) == <<"uuid", n>>
HistTime(k) == <<"hist", k>>
Now(t) == <<"now", t>>
ProductName(k) == <<"product", ToString(k)>>
UnknownName == <<"product", "0">>

\* the characters the importer's parsing of items_list looks for
Space == " "
Comma == ","

\* data/products_list.csv with n rows
Catalog(n) == [k \in 1..n |-> [product_name |-> ProductName(k), unit_price |-> k]]

\* the products relation as a first importer run leaves it for a catalog of n rows
SeededProducts(n) == {[product_id |-> k, product_name |-> ProductName(k), unit_price |-> k] : k \in 1..n}

RECURSIVE SeqsUpTo(_, _)
SeqsUpTo(S, n) ==
    IF n = 0 THEN {<<>>}
    ELSE LET shorter == SeqsUpTo(S, n - 1)
         IN  shorter \cup {Append(s, x) : s \in shorter, x \in S}

----------------------------------------------------------------------------
(* Inputs of submit_purchase: the form fields, over their declared types.
   supermarket_id is one of the supermarkets the page offers; user_id may be
   left empty; items holds any integers, product ids or not. *)

SupermarketIds == {"SMKT001"}
SuppliedUserIds == {EmptyStr} \cup {Customer(k) : k \in 1..NumCustomers} \cup {Uuid(n) : n \in 1..uuid_count}
ItemIds == 1..(NumProducts + 1)
ItemLists == SeqsUpTo(ItemIds, MaxItems)

----------------------------------------------------------------------------
(* Process states *)

IdleWriter ==
    [pc |-> "idle", supermarket_id |-> "", user_id |-> EmptyStr, is_new_customer |-> FALSE,
     items |-> <<>>, customer_id |-> EmptyStr, purchase_id |-> 0, i |-> 0,
     tx_purchases |-> {}, tx_items |-> {}, status |-> 0, outcome |-> "none"]

IdleReader ==
    [pc |-> "idle", stats |-> [unique_shoppers |-> 0, loyal_shoppers |-> <<>>, top_products |-> <<>>]]

IdleImporter ==
    [pc |-> "idle", i |-> 0, connected |-> FALSE,
     name_to_id_map |-> {}, row |-> 0, error |-> "none",
     tx_products |-> {}, tx_purchases |-> {}, tx_items |-> {},
     products_empty |-> FALSE, purchases_empty |-> FALSE,
     runs |-> 0, ok_runs |-> 0, failed_runs |-> 0]

----------------------------------------------------------------------------
(* submit_purchase: the ledger writer *)

\* uuid.uuid4(): a value no earlier call has drawn
Uuid4 == Uuid(uuid_count + 1)

\* mutant of ResolveCustomerId: `or not user_id` is forgotten
ResolveCustomerIdNewOnly(is_new_customer, user_id, fresh) ==
    IF is_new_customer THEN fresh ELSE user_id

\* line 46: customer_id = str(uuid.uuid4()) if is_new_customer or not user_id else user_id
ResolveCustomerId(is_new_customer, user_id, fresh) ==
    IF is_new_customer \/ user_id = EmptyStr THEN fresh ELSE user_id

\* items: List[int] = Form(...) (line 42): a required field; a request that
\* carries no item never enters the handler
FormComplete(items) == items # <<>>

\* the request arrives; identity is resolved, the connection opened, the
\* transaction begun (lines 37-50)
SubmitPurchase(w, supermarket_id, user_id, is_new_customer, items) ==
    /\ schema
    /\ writer[w].pc \in {"idle", "done"}
    /\ FormComplete(items)
    /\ calls.received < calls.admitted
    /\ LET generates == is_new_customer \/ user_id = EmptyStr
           customer_id == ResolveCustomerId(is_new_customer, user_id, Uuid4)
       IN  /\ uuid_count' = IF generates THEN uuid_count + 1 ELSE uuid_count
           /\ calls' = [calls EXCEPT !.received = @ + 1,
                                     !.generated = IF generates THEN @ \cup {customer_id} ELSE @]
           /\ writer' = [writer EXCEPT ![w] =
                  [IdleWriter EXCEPT !.pc = "insert_purchase",
                                     !.supermarket_id = supermarket_id,
                                     !.user_id = user_id,
                                     !.is_new_customer = is_new_customer,
                                     !.items = items,
                                     !.customer_id = customer_id]]
    /\ UNCHANGED <<schema, products, purchases, purchase_items, seq, clock, csv, reader, importer>>

\* mutant of NextPurchaseId: the id is computed from the committed rows
\* (MAX(purchase_id) + 1) instead of being drawn from the sequence
NextPurchaseIdFromRows ==
    IF purchases = {} THEN 1
    ELSE 1 + CHOOSE n \in {p.purchase_id : p \in purchases} :
                 \A p \in purchases : p.purchase_id <= n

\* purchase_id SERIAL (init.py line 48), RETURNING purchase_id: the next value
\* of the sequence, whichever transaction asks
NextPurchaseId == seq.purchases + 1

\* mutant of PurchaseRow: the form's user_id is stored instead of customer_id
PurchaseRowSuppliedId(me, purchase_id, timestamp) ==
    [purchase_id |-> purchase_id, supermarket_id |-> me.supermarket_id,
     timestamp |-> timestamp, user_id |-> me.user_id]

\* the row of INSERT INTO purchases ... RETURNING purchase_id (lines 53-62)
PurchaseRow(me, purchase_id, timestamp) ==
    [purchase_id |-> purchase_id, supermarket_id |-> me.supermarket_id,
     timestamp |-> timestamp, user_id |-> me.customer_id]

\* lines 53-62; fault: the statement raises (storage unreachable)
InsertPurchase(w, fault) ==
    LET me == writer[w]
        purchase_id == NextPurchaseId
    IN  /\ me.pc = "insert_purchase"
        /\ IF fault
           THEN /\ writer' = [writer EXCEPT ![w].pc = "except"]
                /\ UNCHANGED <<seq, clock>>
           ELSE /\ seq' = [seq EXCEPT !.purchases = purchase_id]
                /\ clock' = clock + 1
                /\ writer' = [writer EXCEPT ![w].pc = "insert_items",
                                            ![w].purchase_id = purchase_id,
                                            ![w].i = 1,
                                            ![w].tx_purchases = {PurchaseRow(me, purchase_id, Now(clock))}]
        /\ UNCHANGED <<schema, products, purchases, purchase_items, uuid_count, csv, reader, importer, calls>>

\* the row of INSERT INTO purchase_items (lines 66-69)
ItemRow(purchase_id, item_id) == [purchase_id |-> purchase_id, product_id |-> item_id]

\* mutant of ItemAccepted: product_id INT without REFERENCES products
ItemAcceptedNoReference(row, own_items) ==
    row \notin purchase_items \cup own_items

\* purchase_items: product_id REFERENCES products, PRIMARY KEY (purchase_id, product_id)
\* (init.py lines 56-61); the purchase row is the transaction's own
ItemAccepted(row, own_items) ==
    /\ row.product_id \in {p.product_id : p \in products}
    /\ row \notin purchase_items \cup own_items

\* one iteration of the loop of lines 65-69
InsertItem(w, fault) ==
    LET me == writer[w]
        row == ItemRow(me.purchase_id, me.items[me.i])
    IN  /\ me.pc = "insert_items"
        /\ me.i <= Len(me.items)
        /\ IF ~fault /\ ItemAccepted(row, me.tx_items)
           THEN writer' = [writer EXCEPT ![w].i = me.i + 1,
                                         ![w].tx_items = me.tx_items \cup {row}]
           ELSE writer' = [writer EXCEPT ![w].pc = "except"]
        /\ UNCHANGED <<schema, products, purchases, purchase_items, seq, uuid_count, clock, csv,
                       reader, importer, calls>>

\* a request without the required items field is answered 422 by the
\* framework; the handler does not run (lines 36-43)
RejectPurchase(w, items) ==
    /\ schema
    /\ writer[w].pc \in {"idle", "done"}
    /\ calls.received < calls.admitted
    /\ ~FormComplete(items)
    /\ calls' = [calls EXCEPT !.received = @ + 1]
    /\ writer' = [writer EXCEPT ![w] = [IdleWriter EXCEPT !.pc = "done", !.status = 422,
                                                          !.outcome = "rejected"]]
    /\ UNCHANGED <<schema, products, purchases, purchase_items, seq, uuid_count, clock, csv,
                   reader, importer>>

\* a request that has been answered: its arguments are gone; what remains is
\* the response status, what became of the transaction, the purchase id it
\* had drawn and where the loop stood
Answered(me, status, outcome) ==
    [IdleWriter EXCEPT !.pc = "done", !.status = status, !.outcome = outcome,
                       !.purchase_id = me.purchase_id, !.i = me.i]

\* mutant of CommitTx: the header is committed on its own (a commit placed
\* before the loop over the items)
CommitTxHeaderOnly(me) ==
    [purchases |-> purchases \cup me.tx_purchases,
     purchase_items |-> purchase_items]

\* mutant of CommitTx: a purchase that repeats a stored one (same supermarket,
\* customer and products) is not stored again
CommitTxIfAbsent(me) ==
    LET repeats == \E p \in purchases :
                       /\ p.supermarket_id = me.supermarket_id
                       /\ p.user_id = me.customer_id
                       /\ {it.product_id : it \in {x \in purchase_items : x.purchase_id = p.purchase_id}}
                              = {it.product_id : it \in me.tx_items}
    IN  IF repeats THEN [purchases |-> purchases, purchase_items |-> purchase_items]
        ELSE [purchases |-> purchases \cup me.tx_purchases,
              purchase_items |-> purchase_items \cup me.tx_items]

\* mutant of CommitTx: the two relations are rewritten from the transaction's
\* rows
CommitTxReplaces(me) ==
    [purchases |-> me.tx_purchases, purchase_items |-> me.tx_items]

\* the committed relations after COMMIT of the writer's transaction
CommitTx(me) ==
    [purchases |-> purchases \cup me.tx_purchases,
     purchase_items |-> purchase_items \cup me.tx_items]

\* mutant of RollbackTx: the header insert survives the rollback (it was
\* executed outside the transaction)
RollbackTxKeepsHeader(me) ==
    [purchases |-> purchases \cup me.tx_purchases, purchase_items |-> purchase_items]

\* the committed relations after ROLLBACK
RollbackTx(me) ==
    [purchases |-> purchases, purchase_items |-> purchase_items]

\* the loop is over (line 71) and the block of `with conn.begin()` exits: COMMIT.
\* fault: COMMIT raises outside the try, the server drops the transaction and
\* the request ends in an unhandled error (500)
Commit(w, fault) ==
    LET me == writer[w]
        after == IF fault THEN RollbackTx(me) ELSE CommitTx(me)
    IN  /\ me.pc = "insert_items"
        /\ me.i > Len(me.items)
        /\ purchases' = after.purchases
        /\ purchase_items' = after.purchase_items
        /\ writer' = [writer EXCEPT ![w] =
               IF fault THEN Answered(me, 500, "commit_failed")
               ELSE [me EXCEPT !.pc = "refetch", !.outcome = "committed",
                               !.tx_purchases = {}, !.tx_items = {}]]
        /\ calls' = [calls EXCEPT !.committed = IF fault THEN @ ELSE @ + 1]
        /\ UNCHANGED <<schema, products, seq, uuid_count, clock, csv, reader, importer>>

\* except Exception: transaction.rollback(), then the error page with
\* status_code=500 (lines 73-86)
Rollback(w) ==
    LET me == writer[w]
        after == RollbackTx(me)
    IN  /\ me.pc = "except"
        /\ purchases' = after.purchases
        /\ purchase_items' = after.purchase_items
        /\ writer' = [writer EXCEPT ![w] = Answered(me, 500, "rolled_back")]
        /\ UNCHANGED <<schema, products, seq, uuid_count, clock, csv, reader, importer, calls>>

\* lines 88-99: a second connection re-reads products and the page is
\* rendered with the success message; fault: that connection fails (500)
Refetch(w, fault) ==
    /\ writer[w].pc = "refetch"
    /\ writer' = [writer EXCEPT ![w] = Answered(writer[w], IF fault THEN 500 ELSE 200, "committed")]
    /\ UNCHANGED <<schema, products, purchases, purchase_items, seq, uuid_count, clock, csv,
                   reader, importer, calls>>

\* a request to the cash register, from its arrival to its answer
WriterStep ==
    \/ \E w \in Writers, sid \in SupermarketIds, uid \in SuppliedUserIds, new \in BOOLEAN,
          items \in ItemLists : SubmitPurchase(w, sid, uid, new, items)
    \/ \E w \in Writers, items \in ItemLists : RejectPurchase(w, items)
    \/ \E w \in Writers, fault \in BOOLEAN : InsertPurchase(w, fault)
    \/ \E w \in Writers, fault \in BOOLEAN : InsertItem(w, fault)
    \/ \E w \in Writers, fault \in BOOLEAN : Commit(w, fault)
    \/ \E w \in Writers : Rollback(w)
    \/ \E w \in Writers, fault \in BOOLEAN : Refetch(w, fault)

----------------------------------------------------------------------------
(* get_stats: the aggregation engine *)

\* mutant of UniqueShoppers: DISTINCT is forgotten
UniqueShoppersAllRows(P) == Cardinality(P)

\* SELECT COUNT(DISTINCT user_id) FROM purchases (lines 27-28)
UniqueShoppers(P) == Cardinality({p.user_id : p \in P})

\* COUNT(purchase_id) ... GROUP BY user_id
PurchaseCount(P, user_id) == Cardinality({p \in P : p.user_id = user_id})

\* the threshold of HAVING COUNT(purchase_id) >= 3 (line 35)
LoyalThreshold == 3

\* mutant of LoyalRows: HAVING COUNT(purchase_id) > 3
LoyalRowsStrict(P) ==
    {[user_id |-> u, purchase_count |-> PurchaseCount(P, u)] :
        u \in {q.user_id : q \in {p \in P : PurchaseCount(P, p.user_id) > LoyalThreshold}}}

\* GROUP BY user_id HAVING COUNT(purchase_id) >= 3, as rows (lines 31-35)
LoyalRows(P) ==
    {[user_id |-> u, purchase_count |-> PurchaseCount(P, u)] :
        u \in {q.user_id : q \in {p \in P : PurchaseCount(P, p.user_id) >= LoyalThreshold}}}

\* ORDER BY purchase_count DESC (line 36): every order of the rows in which the
\* count never rises; rows with equal counts come in any order
RECURSIVE OrderByCountDesc(_)
OrderByCountDesc(rows) ==
    IF rows = {} THEN {<<>>}
    ELSE UNION {{<<r>> \o rest : rest \in OrderByCountDesc(rows \ {r})} :
                   r \in {x \in rows : \A y \in rows : x.purchase_count >= y.purchase_count}}

\* purchase_items JOIN products GROUP BY product_name, COUNT(product_id) (lines 44-48)
SalesRows(PI, PR) ==
    {[product_name |-> n, sales_count |-> Cardinality({it \in PI : \E p \in PR :
                                              p.product_id = it.product_id /\ p.product_name = n})] :
        n \in {p.product_name : p \in {q \in PR : \E it \in PI : it.product_id = q.product_id}}}

\* ORDER BY sales_count DESC (line 49)
RECURSIVE OrderBySalesDesc(_)
OrderBySalesDesc(rows) ==
    IF rows = {} THEN {<<>>}
    ELSE UNION {{<<r>> \o rest : rest \in OrderBySalesDesc(rows \ {r})} :
                   r \in {x \in rows : \A y \in rows : x.sales_count >= y.sales_count}}

\* the size of the list below which every row is taken (line 61)
TopN == 3

\* the sales count of the 3rd row, 0 when there are fewer rows (lines 56-58)
ThirdPlaceSalesCount(all_products) ==
    IF Len(all_products) >= TopN THEN all_products[TopN].sales_count ELSE 0

\* mutant of KeepsProduct: a strict cut after three rows
KeepsProductTopThree(top_products, product, third_place_sales_count) ==
    Len(top_products) < TopN

\* whether the loop of lines 60-64 keeps a row
KeepsProduct(top_products, product, third_place_sales_count) ==
    Len(top_products) < TopN \/ product.sales_count >= third_place_sales_count

\* the loop of lines 60-64 from row k on
RECURSIVE TieLoop(_, _, _, _)
TieLoop(all_products, k, top_products, third_place_sales_count) ==
    IF k > Len(all_products) THEN top_products
    ELSE IF KeepsProduct(top_products, all_products[k], third_place_sales_count)
         THEN TieLoop(all_products, k + 1,
                      Append(top_products, [name |-> all_products[k].product_name,
                                            sales |-> all_products[k].sales_count]),
                      third_place_sales_count)
         ELSE top_products

\* lines 54-66
TopProducts(all_products) ==
    IF all_products = <<>> THEN <<>>
    ELSE TieLoop(all_products, 1, <<>>, ThirdPlaceSalesCount(all_products))

\* the request arrives and the first query runs (lines 24-28)
GetStats(r) ==
    /\ schema
    /\ reader[r].pc \in {"idle", "done"}
    /\ reader' = [reader EXCEPT ![r] =
           [IdleReader EXCEPT !.pc = "loyal_shoppers",
                              !.stats.unique_shoppers = UniqueShoppers(purchases)]]
    /\ UNCHANGED <<schema, products, purchases, purchase_items, seq, uuid_count, clock, csv,
                   writer, importer, calls>>

\* the second query (lines 31-40)
QueryLoyalShoppers(r) ==
    /\ reader[r].pc = "loyal_shoppers"
    /\ \E rows \in OrderByCountDesc(LoyalRows(purchases)) :
           reader' = [reader EXCEPT ![r].pc = "top_products", ![r].stats.loyal_shoppers = rows]
    /\ UNCHANGED <<schema, products, purchases, purchase_items, seq, uuid_count, clock, csv,
                   writer, importer, calls>>

\* the third query and the tie rule (lines 44-66), and the response (line 68)
QueryTopProducts(r) ==
    /\ reader[r].pc = "top_products"
    /\ \E all_products \in OrderBySalesDesc(SalesRows(purchase_items, products)) :
           reader' = [reader EXCEPT ![r].pc = "done",
                                    ![r].stats.top_products = TopProducts(all_products)]
    /\ UNCHANGED <<schema, products, purchases, purchase_items, seq, uuid_count, clock, csv,
                   writer, importer, calls>>

\* a request to the dashboard, query by query
ReaderStep ==
    \/ \E r \in Readers : GetStats(r)
    \/ \E r \in Readers : QueryLoyalShoppers(r)
    \/ \E r \in Readers : QueryTopProducts(r)

----------------------------------------------------------------------------
(* wait_for_db: the connection retry at the start of db-init *)

\* max_retries = 10 (line 16)
max_retries == 10

\* mutant of AfterAttempt: `return engine` is missing, the loop goes on after
\* a successful connection
AfterAttemptNoReturn(i, connected) ==
    [pc |-> "wait_for_db", i |-> i + 1, connected |-> connected]

\* one pass of the loop body (lines 19-26): a successful engine.connect()
\* returns the engine; an exception is caught, the process sleeps and the loop
\* goes to the next i
AfterAttempt(i, connected) ==
    IF connected THEN [pc |-> "idle", i |-> i, connected |-> TRUE]
    ELSE [pc |-> "wait_for_db", i |-> i + 1, connected |-> FALSE]

\* for i in range(max_retries): one attempt (lines 18-26)
WaitForDb(m, connected) ==
    LET after == AfterAttempt(importer[m].i, connected)
    IN  /\ importer[m].pc = "wait_for_db"
        /\ importer[m].i < max_retries
        /\ importer' = [importer EXCEPT ![m].pc = after.pc,
                                        ![m].i = after.i,
                                        ![m].connected = after.connected]
        /\ UNCHANGED <<schema, products, purchases, purchase_items, seq, uuid_count, clock, csv,
                       writer, reader, calls>>

\* the loop has run out: exit(1) (lines 27-28); initialize_database is not called
ExitUnavailable(m) ==
    /\ importer[m].pc = "wait_for_db"
    /\ importer[m].i >= max_retries
    /\ importer' = [importer EXCEPT ![m].pc = "exited"]
    /\ UNCHANGED <<schema, products, purchases, purchase_items, seq, uuid_count, clock, csv,
                   writer, reader, calls>>

----------------------------------------------------------------------------
(* initialize_database: the schema and the bootstrap import *)

\* what the importer's own connection reads: committed rows and its own
ImporterSees(rel, own) == rel \cup own

\* CREATE TABLE IF NOT EXISTS x 3 and conn.commit() (lines 33-65)
StartImport(m) ==
    /\ importer[m].pc \in {"idle", "done", "failed"}
    /\ importer[m].runs < MaxRuns
    /\ schema' = TRUE
    /\ importer' = [importer EXCEPT ![m] =
           [IdleImporter EXCEPT !.pc = "check_products",
                                !.runs = importer[m].runs + 1,
                                !.ok_runs = importer[m].ok_runs,
                                !.failed_runs = importer[m].failed_runs]]
    /\ UNCHANGED <<products, purchases, purchase_items, seq, uuid_count, clock, csv,
                   writer, reader, calls>>

\* products_df.to_sql('products', conn, if_exists='append') (lines 72-73): one
\* row per row of the file, product_id from the sequence
ProductRows(products_list, last_id) ==
    {[product_id |-> last_id + k,
      product_name |-> products_list[k].product_name,
      unit_price |-> products_list[k].unit_price] : k \in 1..Len(products_list)}

\* product_name VARCHAR(255) NOT NULL UNIQUE (line 40)
NamesUnique(rows) ==
    \A a \in rows, b \in rows : a.product_name = b.product_name => a = b

\* SELECT COUNT(*) FROM products == 0 (line 70)
ProductsEmpty(me) == ImporterSees(products, me.tx_products) = {}

\* the transaction begins; if ... == 0 (lines 68-70, else line 75)
CheckProducts(m) ==
    LET me == importer[m]
        empty == ProductsEmpty(me)
    IN  /\ me.pc = "check_products"
        /\ importer' = [importer EXCEPT ![m].pc = IF empty THEN "load_products" ELSE "build_map",
                                        ![m].products_empty = empty]
        /\ UNCHANGED <<schema, products, purchases, purchase_items, seq, uuid_count, clock, csv,
                       writer, reader, calls>>

\* an INSERT of a product_name that another open transaction has inserted
\* waits for that transaction to end (unique index on product_name, line 40)
WaitsForName(m, rows) ==
    \E o \in Importers \ {m} :
        \E a \in rows, b \in importer[o].tx_products : a.product_name = b.product_name

\* products is loaded (lines 71-74); fault: the statement raises (storage
\* unreachable)
LoadProducts(m, fault) ==
    LET me == importer[m]
        rows == ProductRows(csv.products_list, seq.products)
    IN  /\ me.pc = "load_products"
        /\ fault \/ ~WaitsForName(m, rows)
        /\ IF fault \/ ~NamesUnique(products \cup rows)
           THEN /\ importer' = [importer EXCEPT ![m].pc = "raise",
                                                ![m].error = IF fault THEN "storage" ELSE "unique_violation"]
                /\ seq' = [seq EXCEPT !.products = IF fault THEN @ ELSE @ + Len(csv.products_list)]
           ELSE /\ importer' = [importer EXCEPT ![m].pc = "build_map",
                                                ![m].tx_products = rows]
                /\ seq' = [seq EXCEPT !.products = @ + Len(csv.products_list)]
        /\ UNCHANGED <<schema, products, purchases, purchase_items, uuid_count, clock, csv,
                       writer, reader, calls>>

\* name_to_id_map = {name: pid for name, pid in product_map_result} (lines 79-80),
\* as the set of its (name, id) pairs
NameToIdMap(rows) == {<<p.product_name, p.product_id>> : p \in rows}

\* lines 79-81
BuildMap(m) ==
    LET me == importer[m]
    IN  /\ me.pc = "build_map"
        /\ importer' = [importer EXCEPT ![m].pc = "check_purchases",
               ![m].name_to_id_map = NameToIdMap(ImporterSees(products, me.tx_products))]
        /\ UNCHANGED <<schema, products, purchases, purchase_items, seq, uuid_count, clock, csv,
                       writer, reader, calls>>

\* mutant of PurchasesEmpty: the replay is nested in the branch that loads the
\* products
PurchasesEmptyIfLoaded(me) ==
    me.products_empty /\ ImporterSees(purchases, me.tx_purchases) = {}

\* mutant of PurchasesEmpty: the check is dropped and the history always replayed
PurchasesEmptyAlways(me) == TRUE

\* SELECT COUNT(*) FROM purchases == 0 (line 84)
PurchasesEmpty(me) == ImporterSees(purchases, me.tx_purchases) = {}

\* if ... == 0 (line 84, else line 110)
CheckPurchases(m) ==
    LET me == importer[m]
        empty == PurchasesEmpty(me)
    IN  /\ me.pc = "check_purchases"
        /\ importer' = [importer EXCEPT ![m].pc = IF empty THEN "replay" ELSE "commit",
                                        ![m].purchases_empty = empty,
                                        ![m].row = 1]
        /\ UNCHANGED <<schema, products, purchases, purchase_items, seq, uuid_count, clock, csv,
                       writer, reader, calls>>

\* the row of INSERT INTO purchases (lines 90-95)
HistoryPurchaseRow(rec, new_purchase_id) ==
    [purchase_id |-> new_purchase_id, supermarket_id |-> rec.supermarket_id,
     timestamp |-> rec.timestamp, user_id |-> rec.user_id]

\* name_to_id_map.get(name) (line 100): the ids the map holds for the name
MapGet(name_to_id_map, name) == {e[2] : e \in {x \in name_to_id_map : x[1] = name}}

\* str.split(','): the fields between the commas; a string without a comma is
\* one field
RECURSIVE Split(_)
Split(s) ==
    IF \A k \in 1..Len(s) : s[k] # Comma THEN <<s>>
    ELSE LET k == CHOOSE j \in 1..Len(s) : s[j] = Comma /\ \A h \in 1..(j - 1) : s[h] # Comma
         IN  <<SubSeq(s, 1, k - 1)>> \o Split(SubSeq(s, k + 1, Len(s)))

\* str.strip(): leading and trailing whitespace removed
RECURSIVE Strip(_)
Strip(s) ==
    IF s # <<>> /\ Head(s) = Space THEN Strip(Tail(s))
    ELSE IF s # <<>> /\ s[Len(s)] = Space THEN Strip(SubSeq(s, 1, Len(s) - 1))
    ELSE s

\* product_names = [name.strip() for name in str(row['items_list']).split(',')] (line 98)
ProductNamesOf(items_list) ==
    LET fields == Split(items_list)
    IN  [k \in 1..Len(fields) |-> Strip(fields[k])]

\* the INSERTs INTO purchase_items of one record, in order (lines 98-105): one
\* per name of items_list the map knows
HistoryItemInserts(rec, new_purchase_id, name_to_id_map) ==
    LET found == SelectSeq(ProductNamesOf(rec.items_list),
                           LAMBDA name : MapGet(name_to_id_map, name) # {})
    IN  [k \in 1..Len(found) |->
            [purchase_id |-> new_purchase_id,
             product_id |-> CHOOSE id \in MapGet(name_to_id_map, found[k]) : TRUE]]

\* PRIMARY KEY (purchase_id, product_id) (line 60): no two inserts of the same row
NoDuplicateInsert(inserts) ==
    \A a \in 1..Len(inserts), b \in 1..Len(inserts) : inserts[a] = inserts[b] => a = b

\* one iteration of the loop over purchases_df (lines 88-107); fault: a
\* statement of the iteration raises (storage unreachable)
ReplayRow(m, fault) ==
    LET me == importer[m]
        rec == csv.purchases[me.row]
        new_purchase_id == NextPurchaseId
        inserts == HistoryItemInserts(rec, new_purchase_id, me.name_to_id_map)
    IN  /\ me.pc = "replay"
        /\ me.row <= Len(csv.purchases)
        /\ seq' = [seq EXCEPT !.purchases = new_purchase_id]
        /\ IF fault \/ ~NoDuplicateInsert(inserts)
           THEN importer' = [importer EXCEPT ![m].pc = "raise",
                    ![m].error = IF fault THEN "storage" ELSE "unique_violation",
                    ![m].tx_purchases = me.tx_purchases \cup {HistoryPurchaseRow(rec, new_purchase_id)}]
           ELSE importer' = [importer EXCEPT ![m].row = me.row + 1,
                    ![m].tx_purchases = me.tx_purchases \cup {HistoryPurchaseRow(rec, new_purchase_id)},
                    ![m].tx_items = me.tx_items \cup {inserts[k] : k \in 1..Len(inserts)}]
        /\ UNCHANGED <<schema, products, purchases, purchase_items, uuid_count, clock, csv,
                       writer, reader, calls>>

\* the loop is over (line 108)
ReplayDone(m) ==
    /\ importer[m].pc = "replay"
    /\ importer[m].row > Len(csv.purchases)
    /\ importer' = [importer EXCEPT ![m].pc = "commit"]
    /\ UNCHANGED <<schema, products, purchases, purchase_items, seq, uuid_count, clock, csv,
                   writer, reader, calls>>

\* mutant of CommitImportTx: a purchase the store already holds (same
\* supermarket, timestamp and customer) is not stored again, nor are its items
CommitImportTxOnce(me) ==
    LET fresh == {p \in me.tx_purchases :
                     ~\E q \in purchases : /\ q.supermarket_id = p.supermarket_id
                                            /\ q.timestamp = p.timestamp
                                            /\ q.user_id = p.user_id}
    IN  [products |-> products \cup me.tx_products,
         purchases |-> purchases \cup fresh,
         purchase_items |-> purchase_items \cup
             {it \in me.tx_items : \E p \in fresh : p.purchase_id = it.purchase_id}]

\* the committed relations after the block of `with conn.begin()` (line 68) is
\* left normally: COMMIT
CommitImportTx(me) ==
    [products |-> products \cup me.tx_products,
     purchases |-> purchases \cup me.tx_purchases,
     purchase_items |-> purchase_items \cup me.tx_items]

\* mutant of AbortImportTx: no enclosing transaction, every statement that ran
\* has been committed
AbortImportTxKeepsRows(me) ==
    [products |-> products \cup me.tx_products,
     purchases |-> purchases \cup me.tx_purchases,
     purchase_items |-> purchase_items \cup me.tx_items]

\* the committed relations after the block of `with conn.begin()` (line 68) is
\* left by an exception: ROLLBACK
AbortImportTx(me) ==
    [products |-> products, purchases |-> purchases, purchase_items |-> purchase_items]

\* the block of line 68 ends and the function returns (lines 108-112)
CommitImport(m) ==
    LET me == importer[m]
        after == CommitImportTx(me)
    IN  /\ me.pc = "commit"
        /\ products' = after.products
        /\ purchases' = after.purchases
        /\ purchase_items' = after.purchase_items
        /\ importer' = [importer EXCEPT ![m].pc = "done",
                                        ![m].ok_runs = me.ok_runs + 1,
                                        ![m].tx_products = {},
                                        ![m].tx_purchases = {},
                                        ![m].tx_items = {}]
        /\ UNCHANGED <<schema, seq, uuid_count, clock, csv, writer, reader, calls>>

\* an exception leaves the block of line 68 and ends the process
AbortImport(m) ==
    LET me == importer[m]
        after == AbortImportTx(me)
    IN  /\ me.pc = "raise"
        /\ products' = after.products
        /\ purchases' = after.purchases
        /\ purchase_items' = after.purchase_items
        /\ importer' = [importer EXCEPT ![m].pc = "failed",
                                        ![m].failed_runs = me.failed_runs + 1,
                                        ![m].tx_products = {},
                                        ![m].tx_purchases = {},
                                        ![m].tx_items = {}]
        /\ UNCHANGED <<schema, seq, uuid_count, clock, csv, writer, reader, calls>>

----------------------------------------------------------------------------
(* The services on a seeded store: one cash-register request and one
   dashboard request at a time *)

\* the store after db-init has run with a catalog of NumProducts rows and
\* an empty purchase history
Init ==
    /\ schema = TRUE
    /\ products = SeededProducts(NumProducts)
    /\ purchases = {}
    /\ purchase_items = {}
    /\ seq = [products |-> NumProducts, purchases |-> 0]
    /\ uuid_count = 0
    /\ clock = 0
    /\ csv = [products_list |-> Catalog(NumProducts), purchases |-> <<>>]
    /\ writer = <<IdleWriter>>
    /\ reader = <<IdleReader>>
    /\ importer = <<>>
    /\ calls = [received |-> 0, committed |-> 0, generated |-> {}, admitted |-> MaxCalls]

Next == WriterStep \/ ReaderStep

Spec == Init /\ [][Next]_vars

----------------------------------------------------------------------------
(* The bootstrap import alone, run after run, before the services start *)

ProductNames == {ProductName(k) : k \in 1..NumProducts}

\* the fields of an items_list cell: a product name, a name the catalog does
\* not hold, or a name after a blank ("a, b")
Fields == ProductNames \cup {UnknownName} \cup {<<Space>> \o ProductName(1)}

\* the cell written from its fields, comma-separated
RECURSIVE Join(_)
Join(fields) ==
    IF fields = <<>> THEN <<>>
    ELSE IF Len(fields) = 1 THEN fields[1]
    ELSE fields[1] \o <<Comma>> \o Join(Tail(fields))

ItemsLists == {Join(fields) : fields \in SeqsUpTo(Fields, MaxItems)}

\* the k-th record of data/purchases.csv
HistoryRecord(k, user_id, items_list) ==
    [supermarket_id |-> "SMKT001", timestamp |-> HistTime(k),
     user_id |-> user_id, items_list |-> items_list]

\* the files data/purchases.csv of at most MaxHistory records
Histories ==
    {[k \in 1..Len(s) |-> HistoryRecord(k, s[k][1], s[k][2])] :
        s \in SeqsUpTo({Customer(c) : c \in 1..NumCustomers} \X ItemsLists, MaxHistory)}

InitImport ==
    /\ schema = FALSE
    /\ products = {}
    /\ purchases = {}
    /\ purchase_items = {}
    /\ seq = [products |-> 0, purchases |-> 0]
    /\ uuid_count = 0
    /\ clock = 0
    /\ \E h \in Histories : csv = [products_list |-> Catalog(NumProducts), purchases |-> h]
    /\ writer = <<>>
    /\ reader = <<>>
    /\ importer = <<IdleImporter>>
    /\ calls = [received |-> 0, committed |-> 0, generated |-> {}, admitted |-> 0]

NextImport ==
    \/ \E m \in Importers : StartImport(m)
    \/ \E m \in Importers : CheckProducts(m)
    \/ \E m \in Importers, fault \in BOOLEAN : LoadProducts(m, fault)
    \/ \E m \in Importers : BuildMap(m)
    \/ \E m \in Importers : CheckPurchases(m)
    \/ \E m \in Importers, fault \in BOOLEAN : ReplayRow(m, fault)
    \/ \E m \in Importers : ReplayDone(m)
    \/ \E m \in Importers : CommitImport(m)
    \/ \E m \in Importers : AbortImport(m)

SpecImport == InitImport /\ [][NextImport]_vars

----------------------------------------------------------------------------
(* Two cash-register workers on a seeded store, their requests interleaved
   statement by statement *)

InitWriters ==
    /\ schema = TRUE
    /\ products = SeededProducts(NumProducts)
    /\ purchases = {}
    /\ purchase_items = {}
    /\ seq = [products |-> NumProducts, purchases |-> 0]
    /\ uuid_count = 0
    /\ clock = 0
    /\ csv = [products_list |-> Catalog(NumProducts), purchases |-> <<>>]
    /\ writer = <<IdleWriter, IdleWriter>>
    /\ reader = <<>>
    /\ importer = <<>>
    /\ calls = [received |-> 0, committed |-> 0, generated |-> {}, admitted |-> MaxCalls]

NextWriters ==
    \/ \E w \in Writers, sid \in SupermarketIds, uid \in SuppliedUserIds, new \in BOOLEAN,
          items \in ItemLists : SubmitPurchase(w, sid, uid, new, items)
    \/ \E w \in Writers, items \in ItemLists : RejectPurchase(w, items)
    \/ \E w \in Writers, fault \in BOOLEAN : InsertPurchase(w, fault)
    \/ \E w \in Writers, fault \in BOOLEAN : InsertItem(w, fault)
    \/ \E w \in Writers, fault \in BOOLEAN : Commit(w, fault)
    \/ \E w \in Writers : Rollback(w)
    \/ \E w \in Writers, fault \in BOOLEAN : Refetch(w, fault)

SpecWriters == InitWriters /\ [][NextWriters]_vars

----------------------------------------------------------------------------
(* Two db-init processes started side by side, on an empty store or on one
   that holds the products and no purchase *)

\* a db-init process calls initialize_database once (lines 114-117)
OneRunImporter == [IdleImporter EXCEPT !.runs = MaxRuns - 1]

InitImporters ==
    /\ \E seeded \in BOOLEAN :
           /\ schema = seeded
           /\ products = IF seeded THEN SeededProducts(NumProducts) ELSE {}
           /\ seq = [products |-> IF seeded THEN NumProducts ELSE 0, purchases |-> 0]
    /\ purchases = {}
    /\ purchase_items = {}
    /\ uuid_count = 0
    /\ clock = 0
    /\ \E h \in Histories : csv = [products_list |-> Catalog(NumProducts), purchases |-> h]
    /\ writer = <<>>
    /\ reader = <<>>
    /\ importer = <<OneRunImporter, OneRunImporter>>
    /\ calls = [received |-> 0, committed |-> 0, generated |-> {}, admitted |-> 0]

NextImporters ==
    \/ \E m \in Importers : StartImport(m)
    \/ \E m \in Importers : CheckProducts(m)
    \/ \E m \in Importers, fault \in BOOLEAN : LoadProducts(m, fault)
    \/ \E m \in Importers : BuildMap(m)
    \/ \E m \in Importers : CheckPurchases(m)
    \/ \E m \in Importers, fault \in BOOLEAN : ReplayRow(m, fault)
    \/ \E m \in Importers : ReplayDone(m)
    \/ \E m \in Importers : CommitImport(m)
    \/ \E m \in Importers : AbortImport(m)

SpecImporters == InitImporters /\ [][NextImporters]_vars

----------------------------------------------------------------------------
(* The whole system from an empty database: db-init run after run, with one
   cash-register request and dashboard requests at any moment once the tables
   exist *)

\* data/purchases.csv without a record, or with one purchase of one product
ShortHistories == {<<>>, <<HistoryRecord(1, Customer(1), ProductName(1))>>}

InitSystem ==
    /\ schema = FALSE
    /\ products = {}
    /\ purchases = {}
    /\ purchase_items = {}
    /\ seq = [products |-> 0, purchases |-> 0]
    /\ uuid_count = 0
    /\ clock = 0
    /\ \E h \in ShortHistories : csv = [products_list |-> Catalog(NumProducts), purchases |-> h]
    /\ writer = <<IdleWriter>>
    /\ reader = <<IdleReader>>
    /\ importer = <<IdleImporter>>
    /\ calls = [received |-> 0, committed |-> 0, generated |-> {}, admitted |-> 1]

NextSystem == NextImport \/ WriterStep \/ ReaderStep

SpecSystem == InitSystem /\ [][NextSystem]_vars

----------------------------------------------------------------------------
(* One db-init process from its start: wait_for_db, then initialize_database
   on an empty database *)

\* the process at the first line of __main__ (line 115)
StartingImporter == [OneRunImporter EXCEPT !.pc = "wait_for_db"]

\* data/purchases.csv without a record, or with one record of any item list
OneRecordHistories ==
    {<<>>} \cup {<<HistoryRecord(1, Customer(1), items_list)>> : items_list \in ItemsLists}

InitStartup ==
    /\ schema = FALSE
    /\ products = {}
    /\ purchases = {}
    /\ purchase_items = {}
    /\ seq = [products |-> 0, purchases |-> 0]
    /\ uuid_count = 0
    /\ clock = 0
    /\ \E h \in OneRecordHistories : csv = [products_list |-> Catalog(NumProducts), purchases |-> h]
    /\ writer = <<>>
    /\ reader = <<>>
    /\ importer = <<StartingImporter>>
    /\ calls = [received |-> 0, committed |-> 0, generated |-> {}, admitted |-> 0]

NextStartup ==
    \/ \E m \in Importers, connected \in BOOLEAN : WaitForDb(m, connected)
    \/ \E m \in Importers : ExitUnavailable(m)
    \/ \E m \in Importers : StartImport(m)
    \/ \E m \in Importers : CheckProducts(m)
    \/ \E m \in Importers, fault \in BOOLEAN : LoadProducts(m, fault)
    \/ \E m \in Importers : BuildMap(m)
    \/ \E m \in Importers : CheckPurchases(m)
    \/ \E m \in Importers, fault \in BOOLEAN : ReplayRow(m, fault)
    \/ \E m \in Importers : ReplayDone(m)
    \/ \E m \in Importers : CommitImport(m)
    \/ \E m \in Importers : AbortImport(m)

\* the loop of wait_for_db is straight-line code between attempts: a pass that
\* can be made is made
SpecStartup ==
    /\ InitStartup
    /\ [][NextStartup]_vars
    /\ WF_vars(\E m \in Importers, connected \in BOOLEAN : WaitForDb(m, connected))
    /\ WF_vars(\E m \in Importers : ExitUnavailable(m))

----------------------------------------------------------------------------
(* The store as a completed import leaves it *)

\* the purchases and line items a first, successful run replays from a history
\* on a store whose products are SeededProducts(n)
ReplayedPurchases(h) == {HistoryPurchaseRow(h[k], k) : k \in 1..Len(h)}
ReplayedItems(h, n) ==
    UNION {LET inserts == HistoryItemInserts(h[k], k, NameToIdMap(SeededProducts(n)))
           IN  {inserts[j] : j \in 1..Len(inserts)} : k \in 1..Len(h)}

----------------------------------------------------------------------------
(* The import on a partially seeded store: the products of an earlier run and
   no purchase (that run had an empty history), or the purchases of an
   earlier run and no product (that run had an empty catalog, so that no name
   of its history was known) *)

\* a history of n purchases of one customer, without items
LedgerHistory(n) == [k \in 1..n |-> HistoryRecord(k, Customer(1), <<>>)]

InitResume ==
    /\ schema = TRUE
    /\ \/ /\ products = SeededProducts(NumProducts)
          /\ purchases = {}
          /\ seq = [products |-> NumProducts, purchases |-> 0]
       \/ \E n \in 1..MaxLedger :
             /\ products = {}
             /\ purchases = ReplayedPurchases(LedgerHistory(n))
             /\ seq = [products |-> 0, purchases |-> n]
    /\ purchase_items = {}
    /\ uuid_count = 0
    /\ clock = 0
    /\ \E h \in Histories : csv = [products_list |-> Catalog(NumProducts), purchases |-> h]
    /\ writer = <<>>
    /\ reader = <<>>
    /\ importer = <<IdleImporter>>
    /\ calls = [received |-> 0, committed |-> 0, generated |-> {}, admitted |-> 0]

NextResume ==
    \/ \E m \in Importers : StartImport(m)
    \/ \E m \in Importers : CheckProducts(m)
    \/ \E m \in Importers, fault \in BOOLEAN : LoadProducts(m, fault)
    \/ \E m \in Importers : BuildMap(m)
    \/ \E m \in Importers : CheckPurchases(m)
    \/ \E m \in Importers, fault \in BOOLEAN : ReplayRow(m, fault)
    \/ \E m \in Importers : ReplayDone(m)
    \/ \E m \in Importers : CommitImport(m)
    \/ \E m \in Importers : AbortImport(m)

SpecResume == InitResume /\ [][NextResume]_vars

----------------------------------------------------------------------------
(* get_stats on every small ledger: NumRanked products, at most MaxLedger
   purchases, any set of line items *)

InitTop ==
    /\ schema = TRUE
    /\ products = SeededProducts(NumRanked)
    /\ \E n \in 0..MaxLedger :
           /\ purchases = ReplayedPurchases(LedgerHistory(n))
           /\ seq = [products |-> NumRanked, purchases |-> n]
           /\ purchase_items \in SUBSET {ItemRow(k, id) : k \in 1..n, id \in 1..NumRanked}
    /\ uuid_count = 0
    /\ clock = 0
    /\ csv = [products_list |-> Catalog(NumRanked), purchases |-> <<>>]
    /\ writer = <<>>
    /\ reader = <<IdleReader>>
    /\ importer = <<>>
    /\ calls = [received |-> 0, committed |-> 0, generated |-> {}, admitted |-> 0]

NextTop ==
    \/ \E r \in Readers : GetStats(r)
    \/ \E r \in Readers : QueryLoyalShoppers(r)
    \/ \E r \in Readers : QueryTopProducts(r)

SpecTop == InitTop /\ [][NextTop]_vars

----------------------------------------------------------------------------
(* The services on a store seeded from a history of two customers, with one
   more request to the ledger writer *)

\* n1 purchases of customer 1, then n2 purchases of customer 2, one item each
CustomerHistory(n1, n2) ==
    [k \in 1..(n1 + n2) |->
        HistoryRecord(k, IF k <= n1 THEN Customer(1) ELSE Customer(2), ProductName(1))]

InitLoyal ==
    /\ schema = TRUE
    /\ products = SeededProducts(NumProducts)
    /\ \E n1 \in 0..MaxPerCustomer, n2 \in 0..MaxPerCustomer :
           /\ csv = [products_list |-> Catalog(NumProducts), purchases |-> CustomerHistory(n1, n2)]
           /\ purchases = ReplayedPurchases(CustomerHistory(n1, n2))
           /\ purchase_items = ReplayedItems(CustomerHistory(n1, n2), NumProducts)
           /\ seq = [products |-> NumProducts, purchases |-> n1 + n2]
    /\ uuid_count = 0
    /\ clock = 0
    /\ writer = <<IdleWriter>>
    /\ reader = <<IdleReader>>
    /\ importer = <<>>
    /\ calls = [received |-> 0, committed |-> 0, generated |-> {}, admitted |-> 1]

NextLoyal == WriterStep \/ ReaderStep

SpecLoyal == InitLoyal /\ [][NextLoyal]_vars

----------------------------------------------------------------------------
(* Properties of the ledger writer, checked under Spec *)

RowsOfPurchase(purchase_id) == {p \in purchases : p.purchase_id = purchase_id}
ItemsOfPurchase(purchase_id) == {it \in purchase_items : it.purchase_id = purchase_id}
ProductIds == {p.product_id : p \in products}
RequestedItems(me) == {ItemRow(me.purchase_id, me.items[k]) : k \in 1..Len(me.items)}
InFlight(me) == me.pc \in {"insert_purchase", "insert_items", "except", "refetch"}

\* C1: a submission whose transaction failed (an insert raised and the handler
\* rolled back, or COMMIT raised) leaves no Purchase row and no line item of
\* its own in the committed store: the committed purchases are exactly those
\* of the committed calls, and every committed line item belongs to one.
AtomicOnFailure ==
    /\ \A w \in Writers :
           writer[w].outcome \in {"rolled_back", "commit_failed"} =>
               /\ RowsOfPurchase(writer[w].purchase_id) = {}
               /\ ItemsOfPurchase(writer[w].purchase_id) = {}
    /\ Cardinality(purchases) = calls.committed
    /\ \A it \in purchase_items : RowsOfPurchase(it.purchase_id) # {}

\* a call failed on its second line item, after the header and one item had
\* been inserted, and nothing of it is in the store
AtomicOnFailureWitness ==
    \E w \in Writers :
        /\ writer[w].outcome = "rolled_back"
        /\ writer[w].purchase_id > 0
        /\ writer[w].i = 2
        /\ RowsOfPurchase(writer[w].purchase_id) = {}
        /\ calls.committed = 1

\* C2: the step that commits a submission adds exactly one Purchase row, with
\* the drawn purchase id, the given supermarket id and the resolved customer
\* id, and exactly len(items) line items, one per product id of the input,
\* all under that purchase id; products and every earlier row stay as they were.
SuccessPostcondition ==
    [][\A w \in Writers :
          (writer[w].pc = "insert_items" /\ writer'[w].pc = "refetch") =>
              LET me == writer[w]
                  new_purchases == purchases' \ purchases
                  new_items == purchase_items' \ purchase_items
              IN  /\ purchases \subseteq purchases'
                  /\ purchase_items \subseteq purchase_items'
                  /\ Cardinality(new_purchases) = 1
                  /\ \A p \in new_purchases :
                         /\ p.purchase_id = me.purchase_id
                         /\ p.supermarket_id = me.supermarket_id
                         /\ p.user_id = me.customer_id
                  /\ new_items = RequestedItems(me)
                  /\ Cardinality(new_items) = Len(me.items)
                  /\ products' = products]_vars

\* a submission of two products has been committed
SuccessPostconditionWitness ==
    \E w \in Writers :
        /\ writer[w].pc = "refetch"
        /\ Len(writer[w].items) = 2
        /\ Cardinality(ItemsOfPurchase(writer[w].purchase_id)) = 2
        /\ Cardinality(RowsOfPurchase(writer[w].purchase_id)) = 1

ValidSubmission(me) ==
    /\ me.supermarket_id # ""
    /\ Len(me.items) > 0
    /\ \A k \in 1..Len(me.items) : me.items[k] \in ProductIds

\* C3: a submission with no items, with an item that is no product id, or with
\* an empty supermarket id never gets as far as an insert, and no committed
\* Purchase is without line items.
ValidationPrecedesWriting ==
    /\ \A w \in Writers :
           (InFlight(writer[w]) /\ ~ValidSubmission(writer[w])) =>
               /\ writer[w].pc \notin {"insert_items", "refetch"}
               /\ writer[w].tx_purchases = {}
    /\ \A p \in purchases : ItemsOfPurchase(p.purchase_id) # {}

\* C4: a call with is_new_customer set or an empty user_id gets a generated id,
\* and n such calls have n distinct generated ids; any other call keeps the
\* supplied id; the id is never empty and is the one the Purchase row carries.
IdentityResolution ==
    /\ Cardinality(calls.generated) = uuid_count
    /\ \A w \in Writers :
           LET me == writer[w]
           IN  InFlight(me) =>
                   /\ (me.is_new_customer \/ me.user_id = EmptyStr) =>
                          /\ me.customer_id \in calls.generated
                          /\ \A v \in Writers \ {w} :
                                 InFlight(writer[v]) => writer[v].customer_id # me.customer_id
                   /\ (~me.is_new_customer /\ me.user_id # EmptyStr) => me.customer_id = me.user_id
                   /\ me.customer_id # EmptyStr
                   /\ \A p \in me.tx_purchases \cup RowsOfPurchase(me.purchase_id) :
                          p.user_id = me.customer_id

\* a second is_new_customer call, with a supplied id, got an id other than
\* the one the first call had generated and stored
IdentityResolutionWitness ==
    \E w \in Writers :
        /\ writer[w].pc = "refetch"
        /\ writer[w].is_new_customer
        /\ writer[w].user_id = Customer(1)
        /\ writer[w].customer_id = Uuid(2)
        /\ \E p \in purchases : p.user_id = Uuid(1)
        /\ \E p \in purchases : p.user_id = Uuid(2)

\* the sales count of a product name in the committed line items
CommittedSales(name) ==
    Cardinality({it \in purchase_items :
                    \E p \in products : p.product_id = it.product_id /\ p.product_name = name})

\* C9: of a purchase whose transaction is open or was rolled back the committed
\* store holds nothing; of a committed one it holds the header and all the line
\* items; and no get_stats result counts a row that is not committed.
NoPartialPurchaseObservable ==
    /\ \A w \in Writers :
           LET me == writer[w]
           IN  /\ (me.pc \in {"insert_purchase", "insert_items", "except"}
                     \/ me.outcome \in {"rolled_back", "commit_failed"}) =>
                       /\ RowsOfPurchase(me.purchase_id) = {}
                       /\ ItemsOfPurchase(me.purchase_id) = {}
               /\ me.pc = "refetch" =>
                       /\ Cardinality(RowsOfPurchase(me.purchase_id)) = 1
                       /\ ItemsOfPurchase(me.purchase_id) = RequestedItems(me)
    /\ \A r \in Readers :
           /\ reader[r].stats.unique_shoppers <= UniqueShoppers(purchases)
           /\ \A k \in DOMAIN reader[r].stats.top_products :
                  reader[r].stats.top_products[k].sales
                      <= CommittedSales(reader[r].stats.top_products[k].name)

\* a get_stats call is between its queries while a transaction holds a header
\* and a line item that are not committed
NoPartialPurchaseObservableWitness ==
    \E w \in Writers, r \in Readers :
        /\ writer[w].pc = "insert_items"
        /\ writer[w].tx_purchases # {}
        /\ writer[w].tx_items # {}
        /\ reader[r].pc = "top_products"
        /\ reader[r].stats.unique_shoppers = 0

----------------------------------------------------------------------------
(* Properties of the aggregation engine *)

SoldNames == {n \in {p.product_name : p \in products} : CommittedSales(n) > 0}

\* how many products have sold at least c times
SoldAtLeast(c) == Cardinality({n \in SoldNames : CommittedSales(n) >= c})

\* the products the tie-inclusive rule selects: all of them when fewer than
\* three have sales; otherwise those that sold at least S times, S being the
\* sales count of the third in rank, i.e. the largest count that at least
\* three products reach
TieInclusiveSelection ==
    IF Cardinality(SoldNames) < 3 THEN SoldNames
    ELSE {n \in SoldNames :
             \E m \in SoldNames :
                 /\ SoldAtLeast(CommittedSales(m)) >= 3
                 /\ \A o \in SoldNames :
                        SoldAtLeast(CommittedSales(o)) >= 3 => CommittedSales(o) <= CommittedSales(m)
                 /\ CommittedSales(n) >= CommittedSales(m)}

\* C5 (under SpecTop): the top_products of a finished get_stats are in
\* descending order of sales, name each selected product once with its sales
\* count, and name no other product.
TieInclusiveTopProducts ==
    \A r \in Readers :
        reader[r].pc = "done" =>
            LET top == reader[r].stats.top_products
            IN  /\ {top[k].name : k \in DOMAIN top} = TieInclusiveSelection
                /\ Len(top) = Cardinality(TieInclusiveSelection)
                /\ \A k \in DOMAIN top : top[k].sales = CommittedSales(top[k].name)
                /\ \A j \in DOMAIN top, k \in DOMAIN top : j < k => top[j].sales >= top[k].sales

\* sales {2, 1, 1, 1}: the tie at the third place extends the result to four rows
TieInclusiveTopProductsWitness ==
    \E r \in Readers :
        /\ reader[r].pc = "done"
        /\ Len(reader[r].stats.top_products) = 4
        /\ reader[r].stats.top_products[1].sales = 2
        /\ reader[r].stats.top_products[3].sales = 1
        /\ reader[r].stats.top_products[4].sales = 1

UserIds == {p.user_id : p \in purchases}

\* C6 (under SpecLoyal): the loyal_shoppers a get_stats call reads name exactly
\* the customers with three or more committed purchases, each once and with
\* that number as its count, in descending order of count.
LoyaltyCohort ==
    [][\A r \in Readers :
          (reader[r].pc = "loyal_shoppers" /\ reader'[r].pc = "top_products") =>
              LET loyal == reader'[r].stats.loyal_shoppers
              IN  /\ {loyal[k].user_id : k \in DOMAIN loyal}
                       = {u \in UserIds : Cardinality({p \in purchases : p.user_id = u}) >= 3}
                  /\ \A j \in DOMAIN loyal, k \in DOMAIN loyal :
                         loyal[j].user_id = loyal[k].user_id => j = k
                  /\ \A k \in DOMAIN loyal :
                         loyal[k].purchase_count
                             = Cardinality({p \in purchases : p.user_id = loyal[k].user_id})
                  /\ \A j \in DOMAIN loyal, k \in DOMAIN loyal :
                         j < k => loyal[j].purchase_count >= loyal[k].purchase_count]_vars

\* customer 1 had two purchases, the ledger writer has committed the third,
\* and the next get_stats lists customer 1 with count 3
LoyaltyCohortWitness ==
    \E r \in Readers :
        /\ reader[r].pc = "top_products"
        /\ Len(csv.purchases) = 2
        /\ calls.committed = 1
        /\ reader[r].stats.loyal_shoppers = <<[user_id |-> Customer(1), purchase_count |-> 3]>>

\* C7 (under SpecLoyal): the unique_shoppers a get_stats call reads is the
\* number of distinct customer ids of the committed purchases, whoever wrote
\* them; on an empty purchases relation the three results are 0, [] and [].
UniqueCustomers ==
    [][\A r \in Readers :
          /\ (reader[r].pc \in {"idle", "done"} /\ reader'[r].pc = "loyal_shoppers") =>
                 /\ \E ids \in SUBSET UserIds :
                        /\ \A p \in purchases : p.user_id \in ids
                        /\ \A u \in ids : \E p \in purchases : p.user_id = u
                        /\ reader'[r].stats.unique_shoppers = Cardinality(ids)
                 /\ purchases = {} => reader'[r].stats.unique_shoppers = 0
          /\ (reader[r].pc = "loyal_shoppers" /\ reader'[r].pc = "top_products" /\ purchases = {}) =>
                 reader'[r].stats.loyal_shoppers = <<>>
          /\ (reader[r].pc = "top_products" /\ reader'[r].pc = "done" /\ purchases = {}) =>
                 reader'[r].stats.top_products = <<>>]_vars

\* two customers of the imported history, each with several purchases, and a
\* customer the ledger writer generated: three unique shoppers
UniqueCustomersWitness ==
    \E r \in Readers :
        /\ reader[r].stats.unique_shoppers = 3
        /\ Cardinality(purchases) > 3
        /\ \E p \in purchases : p.user_id = Uuid(1)
        /\ \E p \in purchases : p.user_id = Customer(2)

----------------------------------------------------------------------------
(* Properties of the bootstrap import, checked under SpecImport *)

\* C8: a run that finds products non-empty inserts no product, a run that
\* finds purchases non-empty skips the replay and inserts no purchase and no
\* line item, and once a run has succeeded no later run changes any of the
\* three relations.
IdempotentBootstrap ==
    [][\A m \in Importers :
          /\ products # {} =>
                 /\ products' = products
                 /\ seq'.products = seq.products
                 /\ importer'[m].tx_products = {}
          /\ purchases # {} =>
                 /\ purchases' = purchases
                 /\ purchase_items' = purchase_items
                 /\ seq'.purchases = seq.purchases
                 /\ importer'[m].tx_purchases = {}
                 /\ importer'[m].tx_items = {}
          /\ importer[m].ok_runs >= 1 => db' = db]_vars

\* a second run has ended after a first successful one, on a store with purchases
IdempotentBootstrapWitness ==
    \E m \in Importers :
        /\ importer[m].pc = "done"
        /\ importer[m].ok_runs = 2
        /\ Len(csv.purchases) = 2
        /\ Cardinality(purchases) = 2

\* C10: a run that fails during the replay leaves purchases and
\* purchase_items empty, and a later run that gets through has replayed the
\* whole history: one Purchase row per record.
ImportAtomicity ==
    \A m \in Importers :
        /\ (importer[m].pc = "failed" /\ importer[m].purchases_empty) =>
               /\ purchases = {}
               /\ purchase_items = {}
        /\ (importer[m].pc = "done" /\ importer[m].failed_runs >= 1) =>
               /\ Cardinality(purchases) = Len(csv.purchases)
               /\ \A k \in 1..Len(csv.purchases) :
                      \E p \in purchases :
                          /\ p.timestamp = csv.purchases[k].timestamp
                          /\ p.user_id = csv.purchases[k].user_id
                          /\ p.supermarket_id = csv.purchases[k].supermarket_id

\* a run failed at the second record, after the first Purchase row had been
\* inserted, and nothing is committed
ImportAtomicityWitness ==
    \E m \in Importers :
        /\ importer[m].pc = "failed"
        /\ importer[m].purchases_empty
        /\ importer[m].row = 2
        /\ seq.purchases >= 2
        /\ purchases = {}

\* the names of a record's item list that the committed products hold
KnownNames(rec) ==
    {n \in {ProductNamesOf(rec.items_list)[k] : k \in 1..Len(ProductNamesOf(rec.items_list))} :
        \E q \in products : q.product_name = n}

\* C11: a run that found purchases empty is never aborted by the contents of
\* the history (only a storage failure ends it early), and when it is done the
\* store holds one Purchase row per record, with the record's supermarket id,
\* timestamp and customer id, and under that row's id one line item per name
\* of the record that is a product name, and no other line item.
BestEffortReplay ==
    \A m \in Importers :
        /\ (importer[m].pc \in {"raise", "failed"} /\ importer[m].purchases_empty) =>
               importer[m].error = "storage"
        /\ (importer[m].pc = "done" /\ importer[m].purchases_empty) =>
               /\ Cardinality(purchases) = Len(csv.purchases)
               /\ \A k \in 1..Len(csv.purchases) :
                      \E p \in purchases :
                          /\ p.supermarket_id = csv.purchases[k].supermarket_id
                          /\ p.timestamp = csv.purchases[k].timestamp
                          /\ p.user_id = csv.purchases[k].user_id
                          /\ {it \in purchase_items : it.purchase_id = p.purchase_id}
                                 = {[purchase_id |-> p.purchase_id, product_id |-> q.product_id] :
                                       q \in {x \in products :
                                                 x.product_name \in KnownNames(csv.purchases[k])}}

----------------------------------------------------------------------------
(* Properties of the ledger writer's answers, checked under Spec *)

\* C12: an answered submission either reports success (200) with its Purchase
\* row and all its line items committed, or reports an error (500) with none
\* of them committed.
OutcomeAsUnit ==
    \A w \in Writers :
        (writer[w].pc = "done" /\ writer[w].outcome # "rejected") =>
            /\ writer[w].status \in {200, 500}
            /\ writer[w].status = 200 =>
                   /\ Cardinality(RowsOfPurchase(writer[w].purchase_id)) = 1
                   /\ Cardinality(ItemsOfPurchase(writer[w].purchase_id)) = writer[w].i - 1
            /\ writer[w].status = 500 =>
                   /\ RowsOfPurchase(writer[w].purchase_id) = {}
                   /\ ItemsOfPurchase(writer[w].purchase_id) = {}

----------------------------------------------------------------------------
(* Properties of concurrent ledger writers, checked under SpecWriters *)

----------------------------------------------------------------------------
(* Properties of get_stats next to the ledger writer, checked under Spec *)

\* the line items of a set of purchases
ItemsOf(P) == {it \in purchase_items : \E p \in P : p.purchase_id = it.purchase_id}

\* C14: the three results of a finished get_stats call are the aggregates of
\* one set of committed purchases with their line items (a state of the
\* ledger), and no step of get_stats changes a row.
StatsAreSnapshot ==
    /\ [](\A r \in Readers :
            reader[r].pc = "done" =>
                \E P \in SUBSET purchases :
                    /\ reader[r].stats.unique_shoppers = UniqueShoppers(P)
                    /\ reader[r].stats.loyal_shoppers \in OrderByCountDesc(LoyalRows(P))
                    /\ \E all_products \in OrderBySalesDesc(SalesRows(ItemsOf(P), products)) :
                           reader[r].stats.top_products = TopProducts(all_products))
    /\ [][\A r \in Readers : reader'[r] # reader[r] => db' = db]_vars

----------------------------------------------------------------------------
(* Properties of concurrent importers, checked under SpecImporters *)

\* the committed Purchase rows that carry a record of the history
CopiesOf(rec) ==
    {p \in purchases : /\ p.supermarket_id = rec.supermarket_id
                       /\ p.timestamp = rec.timestamp
                       /\ p.user_id = rec.user_id}

\* C15: when two importer processes have both found purchases empty and both
\* have committed, every record of the history is stored twice, under two
\* different purchase ids.
DoubleSeed ==
    \A m \in Importers, o \in Importers :
        (/\ m # o
         /\ importer[m].pc = "done" /\ importer[m].purchases_empty
         /\ importer[o].pc = "done" /\ importer[o].purchases_empty) =>
            /\ \A k \in 1..Len(csv.purchases) : Cardinality(CopiesOf(csv.purchases[k])) = 2
            /\ Cardinality(purchases) = 2 * Len(csv.purchases)

\* both processes found purchases empty, both are done, and the two records
\* of the history are four Purchase rows
DoubleSeedWitness ==
    /\ importer[1].pc = "done" /\ importer[1].purchases_empty
    /\ importer[2].pc = "done" /\ importer[2].purchases_empty
    /\ Len(csv.purchases) = 2
    /\ Cardinality(purchases) = 4
    /\ \A k \in 1..2 : Cardinality(CopiesOf(csv.purchases[k])) = 2

----------------------------------------------------------------------------
(* Properties of the whole system, checked under SpecSystem *)

\* C16: no step of the importer, of submit_purchase or of get_stats removes or
\* changes a committed Purchase or line-item row (a new Purchase row never
\* takes the id of an old one), and once products holds a row no step changes
\* products.
AppendOnlyLedger ==
    [][/\ purchases \subseteq purchases'
       /\ purchase_items \subseteq purchase_items'
       /\ \A p \in purchases' \ purchases : \A q \in purchases : q.purchase_id # p.purchase_id
       /\ products # {} => products' = products]_vars

\* the import has replayed a purchase, a later run has ended, a submission has
\* been committed and answered and a get_stats call has finished: the
\* imported and the submitted purchase are both in the store
AppendOnlyLedgerWitness ==
    /\ importer[1].pc = "done"
    /\ importer[1].ok_runs = 2
    /\ writer[1].pc = "done"
    /\ writer[1].status = 200
    /\ reader[1].pc = "done"
    /\ \E p \in purchases : p.timestamp = HistTime(1)
    /\ \E p \in purchases : p.timestamp = Now(0)
    /\ products = SeededProducts(NumProducts)

\* C17: in every committed state each line item names an existing Purchase
\* and an existing Product, no two line items share (purchase id, product id),
\* no two Purchase rows share an id and no two Product rows share a name or an
\* id; and every insert a transaction has had accepted is a row of its own
\* (none was merged into an existing pair).
ReferentialIntegrity ==
    /\ \A it \in purchase_items :
           /\ \E p \in purchases : p.purchase_id = it.purchase_id
           /\ \E q \in products : q.product_id = it.product_id
    /\ \A a \in purchase_items, b \in purchase_items :
           (a.purchase_id = b.purchase_id /\ a.product_id = b.product_id) => a = b
    /\ \A p \in purchases, q \in purchases : p.purchase_id = q.purchase_id => p = q
    /\ \A a \in products, b \in products :
           (a.product_name = b.product_name \/ a.product_id = b.product_id) => a = b
    /\ \A w \in Writers :
           writer[w].pc = "insert_items" =>
               /\ Cardinality(writer[w].tx_items) = writer[w].i - 1
               /\ writer[w].tx_items \cap purchase_items = {}

\* a submission whose second item is no product id has been rolled back at
\* that item, next to the committed purchase of the import and its line item
ReferentialIntegrityWitness ==
    /\ writer[1].outcome = "rolled_back"
    /\ writer[1].i = 2
    /\ writer[1].purchase_id = 2
    /\ Cardinality(purchases) = 1
    /\ Cardinality(purchase_items) = 1
    /\ importer[1].pc = "done"

----------------------------------------------------------------------------
(* Properties of the import on a partially seeded store, checked under
   SpecResume *)

----------------------------------------------------------------------------
(* Repeated submissions, checked under Spec *)

\* the stored purchases of a customer at a supermarket with a given set of products
SamePurchases(supermarket_id, user_id, product_ids) ==
    {p \in purchases :
        /\ p.supermarket_id = supermarket_id
        /\ p.user_id = user_id
        /\ {it.product_id : it \in ItemsOfPurchase(p.purchase_id)} = product_ids}

\* C19: the commit of a submission with a supplied customer id (not a new
\* customer) adds a Purchase row under an id no stored row has, with all its
\* line items, and raises the customer's purchase count by one, whatever the
\* store already holds: after a second successful call with the same arguments
\* there are two such purchases.
NotIdempotent ==
    [][\A w \in Writers :
          LET me == writer[w]
          IN  (/\ me.pc = "insert_items" /\ writer'[w].pc = "refetch"
               /\ ~me.is_new_customer /\ me.user_id # EmptyStr) =>
                  /\ PurchaseCount(purchases', me.user_id) = PurchaseCount(purchases, me.user_id) + 1
                  /\ \A p \in purchases : p.purchase_id # me.purchase_id
                  /\ \E p \in purchases' : p.purchase_id = me.purchase_id /\ p.user_id = me.user_id
                  /\ {it \in purchase_items' : it.purchase_id = me.purchase_id} = RequestedItems(me)
                  /\ Cardinality(RequestedItems(me)) = Len(me.items)
                  /\ \A p \in purchases :
                         {it \in purchase_items' : it.purchase_id = p.purchase_id}
                             = ItemsOfPurchase(p.purchase_id)]_vars

\* the second of two calls with user_id customer 1 and items [1, 2] has been
\* committed: two purchases of customer 1, with different ids, each with the
\* line items of products 1 and 2
NotIdempotentWitness ==
    /\ writer[1].pc = "refetch"
    /\ writer[1].user_id = Customer(1)
    /\ ~writer[1].is_new_customer
    /\ writer[1].items = <<1, 2>>
    /\ calls.committed = 2
    /\ Cardinality(SamePurchases("SMKT001", Customer(1), {1, 2})) = 2
    /\ Cardinality(purchase_items) = 4
    /\ PurchaseCount(purchases, Customer(1)) = 2

----------------------------------------------------------------------------
(* Properties of the start of db-init, checked under SpecStartup *)

\* C20: wait_for_db makes at most max_retries attempts; an attempt that
\* connects returns at once, with no further attempt, and only then are the
\* tables created and the data loaded; when every attempt has failed the
\* process exits without having touched the database and does nothing more;
\* and wait_for_db always comes to an end.
BoundedConnectionRetry ==
    /\ [](\A m \in Importers :
            /\ importer[m].i <= max_retries
            /\ importer[m].pc = "wait_for_db" =>
                   /\ ~importer[m].connected
                   /\ ~schema
                   /\ db = <<{}, {}, {}>>
            /\ importer[m].pc = "exited" =>
                   /\ importer[m].i = max_retries
                   /\ ~importer[m].connected
                   /\ ~schema
                   /\ db = <<{}, {}, {}>>)
    /\ [][\A m \in Importers :
            /\ (importer[m].pc = "wait_for_db" /\ importer'[m].pc = "wait_for_db") =>
                   importer'[m].i <= importer[m].i + 1
            /\ (importer[m].pc = "wait_for_db" /\ importer'[m].pc = "idle") =>
                   /\ importer[m].i < max_retries
                   /\ importer'[m].i = importer[m].i
                   /\ importer'[m].connected
            /\ importer[m].pc = "idle" => importer'[m].pc = "check_products"
            /\ importer[m].pc = "exited" => importer'[m] = importer[m]
            /\ importer[m].pc # "wait_for_db" => importer'[m].pc # "wait_for_db"]_vars
    /\ <>(\A m \in Importers : importer[m].pc # "wait_for_db")

\* the tenth attempt has connected, after nine failures, and wait_for_db has
\* returned; nothing has been created yet
BoundedConnectionRetryWitness ==
    /\ importer[1].pc = "idle"
    /\ importer[1].connected
    /\ importer[1].i = max_retries - 1
    /\ ~schema

====
